---- MODULE Spec2Model ----
(***************************************************************************)
(* Verilator's graph acyclic algorithm (src/src/V3GraphAcyc.cpp): the      *)
(* feedback-arc heuristic GraphAcyc, run by V3Graph::acyclic.              *)
(*                                                                         *)
(* The original graph is a sequence of edges over the vertices 1..NumV;    *)
(* an original edge is named by its index.  The break graph (m_breakGraph) *)
(* is a sequence of work edges in creation order: every new edge is linked *)
(* at the back of its source's out-list and of its destination's in-list,  *)
(* so a vertex's out-list (in-list) is the subsequence of the edges that   *)
(* leave (enter) it.  An EdgeGroup (OrigEdgeList) is an entry of the arena *)
(* grp (m_origEdgeDelp); a work edge holds the index of its list.          *)
(***************************************************************************)
EXTENDS Integers, Sequences, FiniteSets, TLC

\* Bounds of the checked inputs.
NumV == 3
MaxE == 3
MaxW == 2
MaxUnfollowed == 1
MaxAbsent == 1

OV == 1..NumV

VARIABLES
    inputE,      \* the original edges as they were on entry of the first run
    origE,       \* m_origGraphp's edges: [from, to, weight, cutable, follow]
    fAcycSimp,   \* v3Global.opt.fAcycSimp()
    run,         \* which call of V3Graph::acyclic this is (1 or 2)
    entryE,      \* the original edges on entry of the current run
    pc,          \* position in GraphAcyc::main / simplify / place
    allowCut,    \* simplify's parameter
    cur,         \* simplify's vertexp (0: none)
    color,       \* V3GraphVertex::color() of the original vertices
    wV,          \* m_breakGraph.vertices(), named by their origVertexp
    deleted,     \* the work vertices with m_deleted
    wE,          \* the work edges: [id, from, to, weight, cutable, g]
    grp,         \* the OrigEdgeLists, in m_origEdgeDelp order
    nextId,      \* the next work edge's identity
    work,        \* m_work
    onWorkList,  \* the work vertices with m_onWorkList
    rank,        \* V3GraphVertex::rank() of the work vertices
    user,        \* V3GraphVertex::user() of the work vertices
    storedRank,  \* m_storedRank
    placeStep,   \* m_placeStep
    edges,       \* place's sorted vector of edges (their ids)
    placeIdx,    \* place's position in that vector
    errors,      \* number of v3error calls so far
    fired        \* history: the rule that changed the break graph in the last step

vars == <<inputE, origE, fAcycSimp, run, entryE, pc, allowCut, cur, color, wV,
          deleted, wE, grp, nextId, work, onWorkList, rank, user, storedRank,
          placeStep, edges, placeIdx, errors, fired>>

-----------------------------------------------------------------------------
\* Sequences and lists

SeqToSet(s) == {s[i] : i \in DOMAIN s}

Max2(a, b) == IF a >= b THEN a ELSE b

\* V3GraphVertex::outEdges() / inEdges() of work vertex v
OutEdges(E, v) == SelectSeq(E, LAMBDA e : e.from = v)
InEdges(E, v) == SelectSeq(E, LAMBDA e : e.to = v)

\* V3GraphEdge::unlinkDelete()
Unlink(E, id) == SelectSeq(E, LAMBDA e : e.id # id)

EdgeById(E, id) == CHOOSE e \in SeqToSet(E) : e.id = id

HasEdge(E, id) == \E e \in SeqToSet(E) : e.id = id

\* V3GraphEdge::cut(): a weight of 0 is the same as disconnected
EdgeCut(e) == [e EXCEPT !.weight = 0]

-----------------------------------------------------------------------------
\* Work queue

WorkPush(q, v) ==
    IF v \in q.on THEN q
    ELSE [list |-> Append(q.list, v), on |-> q.on \cup {v}]

\* variant: the vertex's m_onWorkList is left set
WorkPopKeepFlag(q) == [list |-> Tail(q.list), on |-> q.on]

WorkPop(q) == [list |-> Tail(q.list), on |-> q.on \ {Head(q.list)}]

RECURSIVE WorkPushAll(_, _)
WorkPushAll(q, s) ==
    IF s = <<>> THEN q ELSE WorkPushAll(WorkPush(q, Head(s)), Tail(s))

-----------------------------------------------------------------------------
\* Original graph: follow predicate and strongly connected colouring

OrigFollowEdge(e) == e.weight # 0 /\ e.follow

\* the edges the graph algorithms follow (GraphAlg::followEdge: an edge of
\* non-zero weight that the predicate accepts), as pairs of vertices
FollowedPairs(E) ==
    {<<E[i].from, E[i].to>> : i \in {j \in DOMAIN E : E[j].weight # 0 /\ E[j].follow}}

RECURSIVE TransClosure(_)
TransClosure(R) ==
    LET R2 == R \cup {<<p[1], q[2]>> : <<p, q>> \in {pq \in R \X R : pq[1][2] = pq[2][1]}}
    IN  IF R2 = R THEN R ELSE TransClosure(R2)

\* V3Graph::stronglyConnected: 0 for a vertex on no followed cycle, else a
\* number naming its strongly connected component
StronglyConnected(E) ==
    LET tc == TransClosure(FollowedPairs(E))
    IN  [v \in OV |->
            IF <<v, v>> \in tc
            THEN CHOOSE u \in OV : /\ <<v, u>> \in tc /\ <<u, v>> \in tc
                                   /\ \A x \in OV : (<<v, x>> \in tc /\ <<x, v>> \in tc) => u <= x
            ELSE 0]

-----------------------------------------------------------------------------
\* buildGraph

\* variant: every vertex is put in the break graph, whatever its colour
InBreakGraphAll(c) == TRUE

\* the test of overtex.color() / toVertexp->color()
InBreakGraph(c) == c # 0

BuildVertices(col) == SelectSeq([i \in 1..NumV |-> i], LAMBDA v : InBreakGraph(col[v]))

\* addOrigEdgep on a work edge that has no list yet, for an original edge
\* that has none either: a new list holding the original edge
NewOrigEdgeList(G, i) == Append(G, <<i>>)

\* variant: the added edge's list is dropped, not appended
AddOrigEdgepDrop(G, to, add) == [G EXCEPT ![add] = <<>>]

\* addOrigEdgep on a work edge that has a list, for a work edge that has one:
\* the added list is moved to the end of the kept one and left empty
AddOrigEdgep(G, to, add) == [G EXCEPT ![to] = G[to] \o G[add], ![add] = <<>>]

\* buildGraphIterate for every coloured vertex, in vertex order: B is
\* [E, grp, nid]; the out-edges of v are met in the original's order
RECURSIVE BuildEdges(_, _, _, _, _)
BuildEdges(B, O, col, v, i) ==
    IF v > NumV THEN B
    ELSE IF ~InBreakGraph(col[v]) \/ i > Len(O) THEN BuildEdges(B, O, col, v + 1, 1)
    ELSE IF O[i].from = v /\ OrigFollowEdge(O[i]) /\ InBreakGraph(col[O[i].to])
    THEN BuildEdges([E   |-> Append(B.E, [id |-> B.nid, from |-> v, to |-> O[i].to,
                                         weight |-> O[i].weight,
                                         cutable |-> O[i].cutable,
                                         g |-> Len(B.grp) + 1]),
                     grp |-> NewOrigEdgeList(B.grp, i),
                     nid |-> B.nid + 1], O, col, v, i + 1)
    ELSE BuildEdges(B, O, col, v, i + 1)

-----------------------------------------------------------------------------
\* The simplifier's rules, as functions of the break graph state
\*   G = [E, del, q, grp, nid, orig, err]
\* (work edges, deleted marks, work queue, OrigEdgeLists, next edge id,
\* original edges, errors reported)

\* edgeFromEdge: a new work edge with the old edge's weight, cutable flag
\* and pointer to its OrigEdgeList
EdgeFromEdge(old, from, to, id) ==
    [id |-> id, from |-> from, to |-> to, weight |-> old.weight,
     cutable |-> old.cutable, g |-> old.g]

\* variant: the break edge is cut, its original edges are left alone
CutOrigEdgeWorkOnly(G, e) ==
    [G EXCEPT !.E = [k \in DOMAIN G.E |-> IF G.E[k].id = e.id THEN EdgeCut(G.E[k]) ELSE G.E[k]]]

\* variant: only the front of the list of original edges is cut
CutOrigEdgeFront(G, e) ==
    [G EXCEPT !.E = [k \in DOMAIN G.E |-> IF G.E[k].id = e.id THEN EdgeCut(G.E[k]) ELSE G.E[k]],
              !.orig = [i \in DOMAIN G.orig |->
                          IF G.grp[e.g] # <<>> /\ i = Head(G.grp[e.g])
                          THEN EdgeCut(G.orig[i]) ELSE G.orig[i]]]

\* cutOrigEdge: the break edge is cut and so is every original edge of its list
CutOrigEdge(G, e) ==
    [G EXCEPT !.E = [k \in DOMAIN G.E |-> IF G.E[k].id = e.id THEN EdgeCut(G.E[k]) ELSE G.E[k]],
              !.orig = [i \in DOMAIN G.orig |->
                          IF i \in SeqToSet(G.grp[e.g]) THEN EdgeCut(G.orig[i]) ELSE G.orig[i]]]

SimplifyNone(G, v) ==
    IF v \in G.del THEN G
    ELSE IF InEdges(G.E, v) = <<>> \/ OutEdges(G.E, v) = <<>> THEN
        LET outs == OutEdges(G.E, v)
            ins  == InEdges(G.E, v)
            q1   == WorkPushAll(G.q, [k \in DOMAIN outs |-> outs[k].to])
            q2   == WorkPushAll(q1, [k \in DOMAIN ins |-> ins[k].from])
        IN  [G EXCEPT !.del = @ \cup {v},
                      !.E = SelectSeq(@, LAMBDA e : e.from # v /\ e.to # v),
                      !.q = q2]
    ELSE G

\* variant: of two cutable edges the heavier is the template
TemplateEdgeHeavier(inE, outE) ==
    IF inE.cutable /\ (~outE.cutable \/ inE.weight > outE.weight) THEN inE ELSE outE

\* variant: on equal weights the in-edge is the template
TemplateEdgeTieIn(inE, outE) ==
    IF inE.cutable /\ (~outE.cutable \/ inE.weight <= outE.weight) THEN inE ELSE outE

\* simplifyOne's choice of the template edge
TemplateEdge(inE, outE) ==
    IF inE.cutable /\ (~outE.cutable \/ inE.weight < outE.weight) THEN inE ELSE outE

\* variant: the in-edge is not unlinked
SimplifyOneKeepIn(G, v) ==
    IF v \in G.del THEN G
    ELSE LET ins == InEdges(G.E, v)
             outs == OutEdges(G.E, v)
         IN  IF Len(ins) = 1 /\ Len(outs) = 1 /\ ins[1].from # v /\ outs[1].to # v
             THEN LET new == EdgeFromEdge(TemplateEdge(ins[1], outs[1]),
                                          ins[1].from, outs[1].to, G.nid)
                  IN  [G EXCEPT !.del = @ \cup {v},
                                !.E = Unlink(Append(@, new), outs[1].id),
                                !.nid = @ + 1,
                                !.q = WorkPush(WorkPush(@, ins[1].from), outs[1].to)]
             ELSE G

SimplifyOne(G, v) ==
    IF v \in G.del THEN G
    ELSE LET ins == InEdges(G.E, v)
             outs == OutEdges(G.E, v)
         IN  IF Len(ins) = 1 /\ Len(outs) = 1 /\ ins[1].from # v /\ outs[1].to # v
             THEN LET new == EdgeFromEdge(TemplateEdge(ins[1], outs[1]),
                                          ins[1].from, outs[1].to, G.nid)
                  IN  [G EXCEPT !.del = @ \cup {v},
                                !.E = Unlink(Unlink(Append(@, new), ins[1].id), outs[1].id),
                                !.nid = @ + 1,
                                !.q = WorkPush(WorkPush(@, ins[1].from), outs[1].to)]
             ELSE G

\* variant: the original edges of the in-edge are made cutable with it
ForceCutableOrig(G, id) ==
    [G EXCEPT !.err = @ + 1,
              !.E = [k \in DOMAIN G.E |->
                        IF G.E[k].id = id THEN [G.E[k] EXCEPT !.cutable = TRUE] ELSE G.E[k]],
              !.orig = [i \in DOMAIN G.orig |->
                          IF i \in SeqToSet(G.grp[EdgeById(G.E, id).g])
                          THEN [G.orig[i] EXCEPT !.cutable = TRUE] ELSE G.orig[i]]]

\* simplifyOut's error path: v3error, and the in-edge is made cutable
ForceCutable(G, id) ==
    [G EXCEPT !.err = @ + 1,
              !.E = [k \in DOMAIN G.E |->
                        IF G.E[k].id = id THEN [G.E[k] EXCEPT !.cutable = TRUE] ELSE G.E[k]]]

\* variant: the redirected in-edge is not unlinked
RECURSIVE SimplifyOutLoopKeepIn(_, _, _, _, _)
SimplifyOutLoopKeepIn(G, v, outE, ins, k) ==
    IF k > Len(ins)
    THEN [G EXCEPT !.E = Unlink(@, outE.id), !.q = WorkPush(@, outE.to)]
    ELSE IF ins[k].from = v THEN ForceCutable(G, ins[k].id)
    ELSE SimplifyOutLoopKeepIn(
            [G EXCEPT !.E = Append(@, EdgeFromEdge(ins[k], ins[k].from, outE.to, G.nid)),
                      !.nid = @ + 1,
                      !.q = WorkPush(@, ins[k].from)],
            v, outE, ins, k + 1)

\* simplifyOut's loop over the in-edges (ins: the in-list as the loop meets
\* it; an edge linked at its back during the loop comes after the self-loop
\* that ends the loop), then the removal of the out-edge
RECURSIVE SimplifyOutLoop(_, _, _, _, _)
SimplifyOutLoop(G, v, outE, ins, k) ==
    IF k > Len(ins)
    THEN [G EXCEPT !.E = Unlink(@, outE.id), !.q = WorkPush(@, outE.to)]
    ELSE IF ins[k].from = v THEN ForceCutable(G, ins[k].id)
    ELSE SimplifyOutLoop(
            [G EXCEPT !.E = Unlink(Append(@, EdgeFromEdge(ins[k], ins[k].from, outE.to, G.nid)),
                                   ins[k].id),
                      !.nid = @ + 1,
                      !.q = WorkPush(@, ins[k].from)],
            v, outE, ins, k + 1)

\* variant: the vertex is not marked deleted
SimplifyOutNoDelete(G, v) ==
    IF v \in G.del THEN G
    ELSE LET outs == OutEdges(G.E, v)
         IN  IF Len(outs) = 1 /\ ~outs[1].cutable
             THEN SimplifyOutLoop(G, v, outs[1], InEdges(G.E, v), 1)
             ELSE G

SimplifyOut(G, v) ==
    IF v \in G.del THEN G
    ELSE LET outs == OutEdges(G.E, v)
         IN  IF Len(outs) = 1 /\ ~outs[1].cutable
             THEN SimplifyOutLoop([G EXCEPT !.del = @ \cup {v}], v, outs[1], InEdges(G.E, v), 1)
             ELSE G

\* variant: duplicates are combined whatever their cutable flags
DupPolicyComb(prevCutable, edgeCutable) == "DelDupComb"

\* variant: an uncutable edge that meets a cutable earlier edge is the one
\* deleted
DupPolicyKeepPrev(prevCutable, edgeCutable) ==
    IF ~prevCutable THEN "DelDupEdge"
    ELSE IF ~edgeCutable THEN "DelDupEdge"
    ELSE "DelDupComb"

\* simplifyDup's policy for an edge that meets an earlier edge (prev) to the
\* same destination
DupPolicy(prevCutable, edgeCutable) ==
    IF ~prevCutable THEN "DelDupEdge"
    ELSE IF ~edgeCutable THEN "DelDupPrev"
    ELSE "DelDupComb"

\* simplifyDup's loop over the out-edges; mark[w] is w's userp: the id of
\* the edge recorded for destination w, or 0
RECURSIVE SimplifyDupLoop(_, _, _, _, _)
SimplifyDupLoop(G, v, outs, k, mark) ==
    IF k > Len(outs) THEN G
    ELSE LET e == outs[k]
             w == e.to
         IN  IF mark[w] = 0
             THEN SimplifyDupLoop(G, v, outs, k + 1, [mark EXCEPT ![w] = e.id])
             ELSE LET prev == EdgeById(G.E, mark[w])
                      how  == DupPolicy(prev.cutable, e.cutable)
                      G1   == CASE how = "DelDupEdge" -> [G EXCEPT !.E = Unlink(@, e.id)]
                                [] how = "DelDupPrev" -> [G EXCEPT !.E = Unlink(@, prev.id)]
                                [] OTHER ->
                                     [G EXCEPT !.E = Unlink(
                                                  [j \in DOMAIN G.E |->
                                                      IF G.E[j].id = prev.id
                                                      THEN [G.E[j] EXCEPT !.weight = @ + e.weight]
                                                      ELSE G.E[j]], e.id),
                                               !.grp = AddOrigEdgep(@, prev.g, e.g)]
                      m1   == IF how = "DelDupPrev" THEN [mark EXCEPT ![w] = e.id] ELSE mark
                  IN  SimplifyDupLoop([G1 EXCEPT !.q = WorkPush(WorkPush(@, w), v)],
                                      v, outs, k + 1, m1)

SimplifyDup(G, v) ==
    IF v \in G.del THEN G
    ELSE SimplifyDupLoop(G, v, OutEdges(G.E, v), 1, [w \in OV |-> 0])

\* variant: every cutable out-edge is cut, to the vertex itself or not
RECURSIVE CutBasicLoopAny(_, _, _, _)
CutBasicLoopAny(G, v, outs, k) ==
    IF k > Len(outs) THEN G
    ELSE IF outs[k].cutable
    THEN CutBasicLoopAny([CutOrigEdge(G, outs[k]) EXCEPT !.E = Unlink(@, outs[k].id),
                                                         !.q = WorkPush(@, v)],
                         v, outs, k + 1)
    ELSE CutBasicLoopAny(G, v, outs, k + 1)

\* cutBasic's loop over the out-edges: a cutable edge to the vertex itself
\* is cut, removed, and the vertex pushed
RECURSIVE CutBasicLoop(_, _, _, _)
CutBasicLoop(G, v, outs, k) ==
    IF k > Len(outs) THEN G
    ELSE IF outs[k].cutable /\ outs[k].to = v
    THEN CutBasicLoop([CutOrigEdge(G, outs[k]) EXCEPT !.E = Unlink(@, outs[k].id),
                                                      !.q = WorkPush(@, v)],
                      v, outs, k + 1)
    ELSE CutBasicLoop(G, v, outs, k + 1)

\* variant: the isDelete test is inverted
CutBasicDeleted(G, v) ==
    IF v \notin G.del THEN G ELSE CutBasicLoop(G, v, OutEdges(G.E, v), 1)

CutBasic(G, v) ==
    IF v \in G.del THEN G ELSE CutBasicLoop(G, v, OutEdges(G.E, v), 1)

\* cutBackward's marks: user() is cleared on every destination, then set on
\* the source of every uncutable in-edge
BackwardMarked(E, v) ==
    LET ins == InEdges(E, v)
    IN  {ins[k].from : k \in {j \in DOMAIN ins : ~ins[j].cutable}}

\* cutBackward's loop over the out-edges: a cutable edge to a marked vertex
\* is cut, removed, and the vertex pushed
RECURSIVE CutBackwardLoop(_, _, _, _, _)
CutBackwardLoop(G, v, outs, k, marked) ==
    IF k > Len(outs) THEN G
    ELSE IF outs[k].cutable /\ outs[k].to \in marked
    THEN CutBackwardLoop([CutOrigEdge(G, outs[k]) EXCEPT !.E = Unlink(@, outs[k].id),
                                                         !.q = WorkPush(@, v)],
                         v, outs, k + 1, marked)
    ELSE CutBackwardLoop(G, v, outs, k + 1, marked)

CutBackward(G, v) ==
    IF v \in G.del THEN G
    ELSE CutBackwardLoop(G, v, OutEdges(G.E, v), 1, BackwardMarked(G.E, v))

\* deleteMarked: a vertex's unlinkDelete removes its edges with it
DeleteMarkedV(V, del) == SelectSeq(V, LAMBDA v : v \notin del)
DeleteMarkedE(E, del) == SelectSeq(E, LAMBDA e : e.from \notin del /\ e.to \notin del)

-----------------------------------------------------------------------------
\* Ranking (V3Graph::rank) and placement

FollowNotCutable(e) == e.weight # 0 /\ ~e.cutable
FollowAlwaysTrue(e) == e.weight # 0

\* whether the work edges of the given ids (a set) hold a directed cycle
HasCycle(E, ids) ==
    LET tc == TransClosure({<<E[k].from, E[k].to>> : k \in {j \in DOMAIN E : E[j].id \in ids}})
    IN  \E v \in OV : <<v, v>> \in tc

NotCutableIds(E) == {E[k].id : k \in {j \in DOMAIN E : FollowNotCutable(E[j])}}
AlwaysTrueIds(E) == {E[k].id : k \in {j \in DOMAIN E : FollowAlwaysTrue(E[j])}}

\* V3Graph::rank over the edges of the given ids, which hold no cycle: a
\* vertex's rank is the number of vertices on the longest path that ends at it
RECURSIVE RankOf(_, _, _)
RankOf(E, ids, v) ==
    LET preds == {E[k].from : k \in {j \in DOMAIN E : E[j].id \in ids /\ E[j].to = v}}
        RECURSIVE MaxRank(_)
        MaxRank(S) == IF S = {} THEN 0
                      ELSE LET x == CHOOSE y \in S : TRUE
                           IN  Max2(RankOf(E, ids, x), MaxRank(S \ {x}))
    IN  1 + MaxRank(preds)

\* variant: the lighter edge goes first
GraphAcycEdgeCmpAscending(lhs, rhs) == lhs.weight < rhs.weight

\* GraphAcycEdgeCmp: whether lhs goes first
GraphAcycEdgeCmp(lhs, rhs) == lhs.weight > rhs.weight

\* std::stable_sort with GraphAcycEdgeCmp, as an insertion from the back
RECURSIVE StableInsert(_, _)
StableInsert(sorted, x) ==
    IF sorted = <<>> THEN <<x>>
    ELSE IF GraphAcycEdgeCmp(x, sorted[Len(sorted)])
    THEN Append(StableInsert(SubSeq(sorted, 1, Len(sorted) - 1), x), sorted[Len(sorted)])
    ELSE Append(sorted, x)

RECURSIVE StableSort(_)
StableSort(s) ==
    IF s = <<>> THEN <<>>
    ELSE StableInsert(StableSort(SubSeq(s, 1, Len(s) - 1)), s[Len(s)])

\* variant: an edge from a vertex to itself is not collected
RECURSIVE PlaceCollectNoSelf(_, _)
PlaceCollectNoSelf(V, E) ==
    IF V = <<>> THEN <<>>
    ELSE SelectSeq(OutEdges(E, Head(V)),
                   LAMBDA e : e.weight # 0 /\ e.cutable /\ e.to # e.from)
         \o PlaceCollectNoSelf(Tail(V), E)

\* place's vector before the sort: for every vertex, in order, its out-edges
\* that have a weight and are cutable
RECURSIVE PlaceCollect(_, _)
PlaceCollect(V, E) ==
    IF V = <<>> THEN <<>>
    ELSE SelectSeq(OutEdges(E, Head(V)), LAMBDA e : e.weight # 0 /\ e.cutable)
         \o PlaceCollect(Tail(V), E)

PlaceEdges(V, E) ==
    LET sorted == StableSort(PlaceCollect(V, E))
    IN  [k \in DOMAIN sorted |-> sorted[k].id]

\* placeIterate on P = [rank, user, stored, q]: the result is
\* [loop, P] with the ranks, marks and undo queue as the call leaves them
RECURSIVE PlaceIterate(_, _, _, _, _)
RECURSIVE PlaceIterateEdges(_, _, _, _, _, _, _)
\* variant: the rank is stored at every visit, on the work list or not
PlaceIterateStoreAlways(P, E, v, currentRank, step) ==
    IF P.rank[v] >= currentRank THEN [loop |-> FALSE, P |-> P]
    ELSE IF P.user[v] = step THEN [loop |-> TRUE, P |-> P]
    ELSE LET P1 == [P EXCEPT !.stored[v] = P.rank[v], !.q = WorkPush(@, v)]
             P2 == [P1 EXCEPT !.user[v] = step, !.rank[v] = currentRank]
         IN  PlaceIterateEdges(P2, E, v, OutEdges(E, v), 1, currentRank, step)

PlaceIterate(P, E, v, currentRank, step) ==
    IF P.rank[v] >= currentRank THEN [loop |-> FALSE, P |-> P]
    ELSE IF P.user[v] = step THEN [loop |-> TRUE, P |-> P]
    ELSE LET P1 == IF v \notin P.q.on
                   THEN [P EXCEPT !.stored[v] = P.rank[v], !.q = WorkPush(@, v)]
                   ELSE P
             P2 == [P1 EXCEPT !.user[v] = step, !.rank[v] = currentRank]
         IN  PlaceIterateEdges(P2, E, v, OutEdges(E, v), 1, currentRank, step)

\* variant: every edge that has a weight is followed, cutable or not
PlaceIterateEdgesAll(P, E, v, outs, k, currentRank, step) ==
    IF k > Len(outs) THEN [loop |-> FALSE, P |-> [P EXCEPT !.user[v] = 0]]
    ELSE IF outs[k].weight # 0
    THEN LET r == PlaceIterate(P, E, outs[k].to, currentRank + 1, step)
         IN  IF r.loop THEN r
             ELSE PlaceIterateEdges(r.P, E, v, outs, k + 1, currentRank, step)
    ELSE PlaceIterateEdges(P, E, v, outs, k + 1, currentRank, step)

PlaceIterateEdges(P, E, v, outs, k, currentRank, step) ==
    IF k > Len(outs) THEN [loop |-> FALSE, P |-> [P EXCEPT !.user[v] = 0]]
    ELSE IF outs[k].weight # 0 /\ ~outs[k].cutable
    THEN LET r == PlaceIterate(P, E, outs[k].to, currentRank + 1, step)
         IN  IF r.loop THEN r
             ELSE PlaceIterateEdges(r.P, E, v, outs, k + 1, currentRank, step)
    ELSE PlaceIterateEdges(P, E, v, outs, k + 1, currentRank, step)

\* placeTryEdge's "while (workBeginp()) workPop()"
RECURSIVE WorkDrain(_)
WorkDrain(q) == IF q.list = <<>> THEN q ELSE WorkDrain(WorkPop(q))

\* variant: the queue is emptied and the ranks are left as the search made them
WorkBackOutDrain(P) == [P EXCEPT !.q = WorkDrain(P.q)]

\* placeTryEdge's back-out loop: every popped vertex gets its stored rank
RECURSIVE WorkBackOut(_)
WorkBackOut(P) ==
    IF P.q.list = <<>> THEN P
    ELSE WorkBackOut([P EXCEPT !.q = WorkPop(@),
                               !.rank[Head(P.q.list)] = P.stored[Head(P.q.list)]])

SetCutable(E, id, c) ==
    [k \in DOMAIN E |-> IF E[k].id = id THEN [E[k] EXCEPT !.cutable = c] ELSE E[k]]

-----------------------------------------------------------------------------
\* Inputs

\* the attributes of a followed input edge: a cutable edge of every weight,
\* an uncutable edge (its weight is never compared)
FollowedAttrs ==
    {[weight |-> w, cutable |-> TRUE, follow |-> TRUE] : w \in 1..MaxW}
    \cup {[weight |-> 1, cutable |-> FALSE, follow |-> TRUE]}

\* an edge the predicate rejects (an edge of weight 0, which is not followed
\* either, is what a cut leaves: the second run meets those)
UnfollowedAttrs ==
    {[weight |-> 1, cutable |-> TRUE, follow |-> FALSE]}

MkEdge(f, t, a) ==
    [from |-> f, to |-> t, weight |-> a.weight, cutable |-> a.cutable, follow |-> a.follow]

InputEdge == {MkEdge(f, t, a) : f \in OV, t \in OV, a \in FollowedAttrs \cup UnfollowedAttrs}

\* Sparse inputs: every sequence of at most MaxE edges, at most
\* MaxUnfollowed of them not followed.  The edges of one source are met in
\* their order in the sequence, and buildGraph visits the sources in vertex
\* order: a sequence whose sources do not decrease stands for every
\* interleaving of the out-lists.
SparseGraphs ==
    UNION {{s \in [1..n -> InputEdge] :
               /\ \A i \in 1..(n - 1) : s[i].from <= s[i + 1].from
               /\ Cardinality({i \in 1..n : ~s[i].follow}) <= MaxUnfollowed} :
           n \in 0..MaxE}

\* Dense inputs: the complete digraph on the vertices, less at most
\* MaxAbsent edges, every edge followed
DensePairs ==
    LET all == [k \in 1..(NumV * NumV) |-> <<((k - 1) \div NumV) + 1, ((k - 1) % NumV) + 1>>]
    IN  SelectSeq(all, LAMBDA p : p[1] # p[2])

DenseGraphs ==
    {LET idx == SelectSeq([k \in DOMAIN DensePairs |-> k], LAMBDA k : k \notin absent)
     IN  [j \in DOMAIN idx |-> MkEdge(DensePairs[idx[j]][1], DensePairs[idx[j]][2], c[idx[j]])] :
     absent \in {S \in SUBSET DOMAIN DensePairs : Cardinality(S) <= MaxAbsent},
     c \in [DOMAIN DensePairs -> FollowedAttrs]}

InputGraphs == SparseGraphs \cup DenseGraphs

ZeroFn == [v \in OV |-> 0]

Init ==
    /\ inputE \in InputGraphs
    /\ origE = inputE
    /\ entryE = inputE
    /\ fAcycSimp \in BOOLEAN
    /\ run = 1
    /\ pc = "main"
    /\ allowCut = FALSE
    /\ cur = 0
    /\ color = ZeroFn
    /\ wV = <<>>
    /\ deleted = {}
    /\ wE = <<>>
    /\ grp = <<>>
    /\ nextId = 1
    /\ work = <<>>
    /\ onWorkList = {}
    /\ rank = ZeroFn
    /\ user = ZeroFn
    /\ storedRank = ZeroFn
    /\ placeStep = 0
    /\ edges = <<>>
    /\ placeIdx = 1
    /\ errors = 0
    /\ fired = "none"

-----------------------------------------------------------------------------
\* Actions

GState ==
    [E |-> wE, del |-> deleted, q |-> [list |-> work, on |-> onWorkList],
     grp |-> grp, nid |-> nextId, orig |-> origE, err |-> errors]

SetG(G) ==
    /\ wE' = G.E
    /\ deleted' = G.del
    /\ work' = G.q.list
    /\ onWorkList' = G.q.on
    /\ grp' = G.grp
    /\ nextId' = G.nid
    /\ origE' = G.orig
    /\ errors' = G.err

\* GraphAcyc::main up to buildGraph
Main ==
    /\ pc = "main"
    /\ fired' = "none"
    /\ LET col == StronglyConnected(origE)
           B == BuildEdges([E |-> <<>>, grp |-> <<>>, nid |-> 1], origE, col, 1, 1)
       IN  /\ color' = col
           /\ wV' = BuildVertices(col)
           /\ wE' = B.E
           /\ grp' = B.grp
           /\ nextId' = B.nid
    /\ allowCut' = FALSE
    /\ pc' = "simplify"
    /\ UNCHANGED <<inputE, origE, fAcycSimp, run, entryE, cur, deleted, work, onWorkList,
                   rank, user, storedRank, placeStep, edges, placeIdx, errors>>

\* simplify: every vertex is pushed
SimplifyBegin ==
    /\ pc = "simplify"
    /\ fired' = "none"
    /\ LET q == WorkPushAll([list |-> work, on |-> onWorkList], wV)
       IN  work' = q.list /\ onWorkList' = q.on
    /\ pc' = "loop"
    /\ UNCHANGED <<inputE, origE, fAcycSimp, run, entryE, allowCut, cur, color, wV, deleted,
                   wE, grp, nextId, rank, user, storedRank, placeStep, edges, placeIdx, errors>>

\* simplify's loop: the front vertex is popped
SimplifyPop ==
    /\ pc = "loop"
    /\ fired' = "none"
    /\ work # <<>>
    /\ cur' = Head(work)
    /\ LET q == WorkPop([list |-> work, on |-> onWorkList])
       IN  work' = q.list /\ onWorkList' = q.on
    /\ pc' = "None"
    /\ UNCHANGED <<inputE, origE, fAcycSimp, run, entryE, allowCut, color, wV, deleted,
                   wE, grp, nextId, rank, user, storedRank, placeStep, edges, placeIdx, errors>>

RuleFrame ==
    UNCHANGED <<inputE, fAcycSimp, run, entryE, allowCut, cur, color, wV,
                rank, user, storedRank, placeStep, edges, placeIdx>>

DoSimplifyNone ==
    /\ pc = "None"
    /\ SetG(SimplifyNone(GState, cur))
    /\ fired' = IF SimplifyNone(GState, cur) = GState THEN "none" ELSE "None"
    /\ pc' = "One"
    /\ RuleFrame

DoSimplifyOne ==
    /\ pc = "One"
    /\ SetG(SimplifyOne(GState, cur))
    /\ fired' = IF SimplifyOne(GState, cur) = GState THEN "none" ELSE "One"
    /\ pc' = "Out"
    /\ RuleFrame

DoSimplifyOut ==
    /\ pc = "Out"
    /\ SetG(SimplifyOut(GState, cur))
    /\ fired' = IF SimplifyOut(GState, cur) = GState THEN "none" ELSE "Out"
    /\ pc' = "Dup"
    /\ RuleFrame

\* whether simplify goes on to cutBasic and cutBackward
CutRulesEnabled(allow, opt) == allow /\ opt

DoSimplifyDup ==
    /\ pc = "Dup"
    /\ SetG(SimplifyDup(GState, cur))
    /\ fired' = IF SimplifyDup(GState, cur) = GState THEN "none" ELSE "Dup"
    /\ pc' = IF CutRulesEnabled(allowCut, fAcycSimp) THEN "Basic" ELSE "loop"
    /\ RuleFrame

DoCutBasic ==
    /\ pc = "Basic"
    /\ SetG(CutBasic(GState, cur))
    /\ fired' = IF CutBasic(GState, cur) = GState THEN "none" ELSE "Basic"
    /\ pc' = "Backward"
    /\ RuleFrame

DoCutBackward ==
    /\ pc = "Backward"
    /\ SetG(CutBackward(GState, cur))
    /\ fired' = IF CutBackward(GState, cur) = GState THEN "none" ELSE "Backward"
    /\ pc' = "loop"
    /\ RuleFrame

\* simplify's end: deleteMarked; main goes on with simplify(true) or the ranking
DeleteMarked ==
    /\ pc = "loop"
    /\ fired' = "none"
    /\ work = <<>>
    /\ wV' = DeleteMarkedV(wV, deleted)
    /\ wE' = DeleteMarkedE(wE, deleted)
    /\ deleted' = {}
    /\ cur' = 0
    /\ allowCut' = TRUE
    /\ pc' = IF allowCut THEN "rank" ELSE "simplify"
    /\ UNCHANGED <<inputE, origE, fAcycSimp, run, entryE, color, grp, nextId, work,
                   onWorkList, rank, user, storedRank, placeStep, edges, placeIdx, errors>>

\* m_breakGraph.rank(&V3GraphEdge::followNotCutable), fatal on a loop
Rank ==
    /\ pc = "rank"
    /\ fired' = "none"
    /\ IF HasCycle(wE, NotCutableIds(wE))
       THEN pc' = "fatal" /\ UNCHANGED rank
       ELSE /\ pc' = "place"
            /\ rank' = [v \in OV |-> IF v \in SeqToSet(wV)
                                     THEN RankOf(wE, NotCutableIds(wE), v) ELSE rank[v]]
    /\ UNCHANGED <<inputE, origE, fAcycSimp, run, entryE, allowCut, cur, color, wV, deleted,
                   wE, grp, nextId, work, onWorkList, user, storedRank, placeStep, edges,
                   placeIdx, errors>>

\* place up to its loop over the sorted edges
Place ==
    /\ pc = "place"
    /\ fired' = "none"
    /\ edges' = PlaceEdges(wV, wE)
    /\ placeIdx' = 1
    /\ user' = [v \in OV |-> IF v \in SeqToSet(wV) THEN 0 ELSE user[v]]
    /\ placeStep' = 10
    /\ pc' = "try"
    /\ UNCHANGED <<inputE, origE, fAcycSimp, run, entryE, allowCut, cur, color, wV, deleted,
                   wE, grp, nextId, work, onWorkList, rank, storedRank, errors>>

\* placeTryEdge on the next edge of place's vector
PlaceTryEdge ==
    /\ pc = "try"
    /\ placeIdx <= Len(edges)
    /\ LET e == EdgeById(wE, edges[placeIdx])
           step == placeStep + 1
           E1 == SetCutable(wE, e.id, FALSE)
           r == PlaceIterate([rank |-> rank, user |-> user, stored |-> storedRank,
                              q |-> [list |-> work, on |-> onWorkList]],
                             E1, e.to, rank[e.from] + 1, step)
       IN  /\ placeStep' = step
           /\ IF ~r.loop
              THEN LET q == WorkDrain(r.P.q)
                   IN  /\ wE' = E1
                       /\ origE' = origE
                       /\ rank' = r.P.rank
                       /\ work' = q.list
                       /\ onWorkList' = q.on
              ELSE LET E2 == SetCutable(E1, e.id, TRUE)
                       G == CutOrigEdge([GState EXCEPT !.E = E2], EdgeById(E2, e.id))
                       P == WorkBackOut(r.P)
                   IN  /\ wE' = Unlink(G.E, e.id)
                       /\ origE' = G.orig
                       /\ rank' = P.rank
                       /\ work' = P.q.list
                       /\ onWorkList' = P.q.on
           /\ user' = r.P.user
           /\ storedRank' = r.P.stored
           /\ fired' = IF r.loop THEN "PlaceLoop" ELSE "PlaceKeep"
    /\ placeIdx' = placeIdx + 1
    /\ pc' = "try"
    /\ UNCHANGED <<inputE, fAcycSimp, run, entryE, allowCut, cur, color, wV, deleted,
                   grp, nextId, edges, errors>>

\* main's final m_breakGraph.rank(&V3GraphEdge::followAlwaysTrue)
FinalRank ==
    /\ pc = "try"
    /\ fired' = "none"
    /\ placeIdx > Len(edges)
    /\ IF HasCycle(wE, AlwaysTrueIds(wE))
       THEN pc' = "fatal" /\ UNCHANGED rank
       ELSE /\ pc' = "done"
            /\ rank' = [v \in OV |-> IF v \in SeqToSet(wV)
                                     THEN RankOf(wE, AlwaysTrueIds(wE), v) ELSE rank[v]]
    /\ UNCHANGED <<inputE, origE, fAcycSimp, run, entryE, allowCut, cur, color, wV, deleted,
                   wE, grp, nextId, work, onWorkList, user, storedRank, placeStep, edges,
                   placeIdx, errors>>

\* V3Graph::acyclic is called again, with the same predicate, on the graph
\* the first call left: a new GraphAcyc
Again ==
    /\ pc = "done"
    /\ fired' = "none"
    /\ run = 1
    /\ run' = 2
    /\ entryE' = origE
    /\ pc' = "main"
    /\ allowCut' = FALSE
    /\ cur' = 0
    /\ color' = ZeroFn
    /\ wV' = <<>>
    /\ deleted' = {}
    /\ wE' = <<>>
    /\ grp' = <<>>
    /\ nextId' = 1
    /\ work' = <<>>
    /\ onWorkList' = {}
    /\ rank' = ZeroFn
    /\ user' = ZeroFn
    /\ storedRank' = ZeroFn
    /\ placeStep' = 0
    /\ edges' = <<>>
    /\ placeIdx' = 1
    /\ UNCHANGED <<inputE, origE, fAcycSimp, errors>>

Next ==
    \/ Main
    \/ SimplifyBegin
    \/ SimplifyPop
    \/ DoSimplifyNone
    \/ DoSimplifyOne
    \/ DoSimplifyOut
    \/ DoSimplifyDup
    \/ DoCutBasic
    \/ DoCutBackward
    \/ DeleteMarked
    \/ Rank
    \/ Place
    \/ PlaceTryEdge
    \/ FinalRank

Spec == Init /\ [][Next]_vars

\* the positions of the run; at "done" acyclic has returned, at "fatal"
\* V3Graph::rank has ended the program
PcSet ==
    {"main", "simplify", "loop", "None", "One", "Out", "Dup", "Basic", "Backward",
     "rank", "place", "try", "done", "fatal"}

Running == pc \notin {"done", "fatal"}

\* the running program moves on: to another position, or to the next edge
\* of place's vector
Advance ==
    /\ Running
    /\ pc' \in PcSet
    /\ placeIdx' \in {placeIdx, placeIdx + 1}

\* the program is sequential and nothing suspends it: while it runs, it
\* moves on
SpecFair == Spec /\ WF_<<pc, placeIdx>>(Advance)

\* acyclic called twice
NextTwice == Next \/ Again

SpecTwice == Init /\ [][NextTwice]_vars

-----------------------------------------------------------------------------
\* Properties

PairsCyclic(R) == \E v \in OV : <<v, v>> \in TransClosure(R)

UncutablePairs(E) ==
    {<<E[i].from, E[i].to>> : i \in {j \in DOMAIN E : OrigFollowEdge(E[j]) /\ ~E[j].cutable}}

\* the followed edges hold no cycle made only of uncutable edges
NoUncutableCycle(E) == ~PairsCyclic(UncutablePairs(E))

\* the original edges cut so far in this run
CutNow == {i \in DOMAIN origE : origE[i].weight = 0 /\ entryE[i].weight # 0}

\* the original edges that buildGraph puts in the break graph
InWorkGraph(i) ==
    /\ OrigFollowEdge(entryE[i])
    /\ StronglyConnected(entryE)[entryE[i].from] # 0
    /\ StronglyConnected(entryE)[entryE[i].to] # 0

\* C1: for an input whose followed edges hold no cycle of uncutable edges,
\* when acyclic returns the followed original edges that are not cut (a cut
\* edge has weight 0 and is not followed) hold no directed cycle.
C1_Acyclic ==
    (pc = "done" /\ NoUncutableCycle(entryE)) => ~PairsCyclic(FollowedPairs(origE))

\* a run on a cyclic input that went through simplification with the cut
\* rules and through placement, cut an edge there, and returned
C1_Witness ==
    /\ pc = "done"
    /\ NoUncutableCycle(entryE)
    /\ PairsCyclic(FollowedPairs(entryE))
    /\ fAcycSimp
    /\ fired = "none"
    /\ Len(edges) >= 2
    /\ \E k \in DOMAIN edges : ~HasEdge(wE, edges[k])
    /\ CutNow # {}

\* C2: on an input without a cycle of uncutable followed edges no original
\* edge that was uncutable on entry is ever cut (or changed at all): in
\* every state of the run it is as it was on entry; and on any input every
\* original edge cut in the run was cutable on entry.
C2_UncutablePreserved ==
    /\ NoUncutableCycle(entryE) =>
          \A i \in DOMAIN origE : ~entryE[i].cutable => origE[i] = entryE[i]
    /\ \A i \in CutNow : entryE[i].cutable

\* an uncutable edge was in the break graph of a run that cut other edges
C2_Witness ==
    /\ pc = "done"
    /\ NoUncutableCycle(entryE)
    /\ \E i \in DOMAIN entryE : ~entryE[i].cutable /\ InWorkGraph(i)
    /\ CutNow # {}

\* C3: acyclic never removes an original edge and never changes an original
\* edge's endpoints, cutable flag or predicate value: a step changes an
\* original edge at most by cutting it (its weight becomes 0); the step of
\* the Out rule that reports the error changes no original edge.
C3_OnlyCut ==
    [][/\ Len(origE') = Len(origE)
       /\ \A i \in DOMAIN origE :
             \/ origE'[i] = origE[i]
             \/ origE'[i] = [origE[i] EXCEPT !.weight = 0]
       /\ errors' # errors => origE' = origE]_vars

\* the Out rule's error path was taken (a work edge was forced cutable) in a
\* run that has also cut an original edge
C3_Witness ==
    /\ errors > 0
    /\ CutNow # {}
    /\ \E i \in DOMAIN origE : ~origE[i].cutable /\ InWorkGraph(i)

AllColourZero(E) == ~PairsCyclic(FollowedPairs(E))

\* C4: if the followed edges of the input hold no directed cycle, every
\* vertex gets colour 0, the break graph is built empty and no edge is cut:
\* the original edges are in every state as they were on entry.
C4_NoCycleNoCut ==
    AllColourZero(entryE) =>
        (origE = entryE /\ color = ZeroFn /\ wV = <<>> /\ wE = <<>>)

\* a run on an input with a followed path of two edges and no followed
\* cycle has returned
C4_Witness ==
    /\ pc = "done"
    /\ AllColourZero(entryE)
    /\ \E i, j \in DOMAIN entryE :
          /\ OrigFollowEdge(entryE[i]) /\ OrigFollowEdge(entryE[j])
          /\ entryE[i].to = entryE[j].from /\ entryE[i].from # entryE[j].to

\* the input is exactly a 2-cycle of followed cutable edges of different
\* positive weights
TwoCycle(E) ==
    /\ Len(E) = 2
    /\ E[1].from # E[1].to
    /\ E[2].from = E[1].to /\ E[2].to = E[1].from
    /\ \A i \in 1..2 : E[i].cutable /\ E[i].follow /\ E[i].weight > 0
    /\ E[1].weight # E[2].weight

\* C5: for an input that is exactly a 2-cycle of followed cutable edges of
\* different positive weights, when acyclic returns the lighter edge is cut
\* and the heavier edge is as it was.
C5_LighterCut ==
    (pc = "done" /\ TwoCycle(entryE)) =>
        LET light == IF entryE[1].weight < entryE[2].weight THEN 1 ELSE 2
        IN  /\ origE[light].weight = 0
            /\ origE[3 - light] = entryE[3 - light]

\* a run on such a 2-cycle whose lighter edge leaves the vertex visited
\* second has returned
C5_Witness ==
    /\ pc = "done"
    /\ TwoCycle(entryE)
    /\ entryE[2].weight < entryE[1].weight

\* the input is exactly a 2-cycle of followed uncutable edges
UncutableTwoCycle(E) ==
    /\ Len(E) = 2
    /\ E[1].from # E[1].to
    /\ E[2].from = E[1].to /\ E[2].to = E[1].from
    /\ \A i \in 1..2 : ~E[i].cutable /\ OrigFollowEdge(E[i])

\* C6: for an input that is a 2-cycle of uncutable edges, when acyclic
\* returns the error has been reported and one of the two original edges
\* is cut.
C6_ErrorThenCut ==
    (pc = "done" /\ UncutableTwoCycle(entryE)) =>
        (errors >= 1 /\ \E i \in 1..2 : origE[i].weight = 0)

\* a run on an uncutable 2-cycle has reported the error and returned, and
\* both original edges are as they were
C6_Witness ==
    /\ pc = "done"
    /\ UncutableTwoCycle(entryE)
    /\ errors >= 1
    /\ origE = entryE

\* the work edges from v to w, in v's out-list order
Parallel(E, v, w) == SelectSeq(OutEdges(E, v), LAMBDA e : e.to = w)

RECURSIVE SumWeight(_)
SumWeight(s) == IF s = <<>> THEN 0 ELSE Head(s).weight + SumWeight(Tail(s))

\* C7: when the Dup rule runs on a vertex that has two or more work edges to
\* one destination, all cutable, they are replaced by one cutable work edge
\* of the summed weight whose EdgeGroup holds every original edge of them
\* all; and whenever a step cuts an original edge of an EdgeGroup, every
\* original edge of that EdgeGroup is cut after the step.
C7_DupMerge ==
    [][/\ (pc = "Dup" /\ cur \notin deleted) =>
            \A w \in OV :
                LET par   == Parallel(wE, cur, w)
                    after == Parallel(wE', cur, w)
                IN  (Len(par) >= 2 /\ \A k \in DOMAIN par : par[k].cutable) =>
                        /\ Len(after) = 1
                        /\ after[1].cutable
                        /\ after[1].weight = SumWeight(par)
                        /\ SeqToSet(grp'[after[1].g])
                             = UNION {SeqToSet(grp[par[k].g]) : k \in DOMAIN par}
       /\ \A g \in DOMAIN grp :
            (\E i \in SeqToSet(grp[g]) : origE[i].weight # 0 /\ origE'[i].weight = 0) =>
                \A i \in SeqToSet(grp[g]) : origE'[i].weight = 0]_vars

\* an EdgeGroup holds two parallel original edges, merged by the Dup rule,
\* and both are cut
C7_Witness ==
    \E g \in DOMAIN grp :
        /\ Len(grp[g]) >= 2
        /\ \A k \in DOMAIN grp[g] :
              /\ origE[grp[g][k]].weight = 0
              /\ entryE[grp[g][k]].weight # 0
              /\ entryE[grp[g][k]].from = entryE[grp[g][1]].from
              /\ entryE[grp[g][k]].to = entryE[grp[g][1]].to

\* C8: when the One rule runs on a live vertex with exactly one in-edge and
\* one out-edge, neither a self-loop, the step adds an edge from in.from to
\* out.to that takes weight, cutable flag and EdgeGroup from the in-edge if
\* the in-edge is cutable and (the out-edge is uncutable or the in-edge is
\* strictly lighter), else from the out-edge; so the new edge is cutable iff
\* one of the two is, and when both are cutable it carries the lighter
\* one's EdgeGroup, the out-edge's on a tie.
C8_OneTemplate ==
    [][(/\ pc = "One" /\ cur \notin deleted
        /\ Len(InEdges(wE, cur)) = 1 /\ Len(OutEdges(wE, cur)) = 1
        /\ InEdges(wE, cur)[1].from # cur /\ OutEdges(wE, cur)[1].to # cur) =>
          LET inE  == InEdges(wE, cur)[1]
              outE == OutEdges(wE, cur)[1]
              pick == IF inE.cutable /\ (~outE.cutable \/ inE.weight < outE.weight)
                      THEN inE ELSE outE
          IN  /\ HasEdge(wE', nextId)
              /\ ~HasEdge(wE', inE.id) /\ ~HasEdge(wE', outE.id)
              /\ cur \in deleted'
              /\ LET new == EdgeById(wE', nextId)
                 IN  /\ new.from = inE.from /\ new.to = outE.to
                     /\ new.weight = pick.weight
                     /\ new.cutable = pick.cutable
                     /\ new.g = pick.g
                     /\ new.cutable <=> (inE.cutable \/ outE.cutable)
                     /\ (inE.cutable /\ outE.cutable) =>
                           /\ inE.weight < outE.weight => new.g = inE.g
                           /\ inE.weight >= outE.weight => new.g = outE.g]_vars

\* the One rule has just made a cutable edge that carries the EdgeGroup of
\* the in-edge
C8_Witness ==
    /\ fired = "One"
    /\ HasEdge(wE, nextId - 1)
    /\ LET new == EdgeById(wE, nextId - 1)
       IN  /\ new.cutable
           /\ grp[new.g] # <<>>
           /\ \A k \in DOMAIN grp[new.g] : entryE[grp[new.g][k]].from = new.from

CutableSelfLoops(E) == {e \in SeqToSet(E) : e.cutable /\ e.from = e.to}

\* C9: when the Basic rule runs on a live vertex with a cutable work edge to
\* itself, the step cuts every original edge of that edge's EdgeGroup,
\* removes the work edge and leaves the vertex on the work list; and when
\* simplify(true) with the cut rules enabled ends, the work graph holds no
\* cutable self-loop.
C9_BasicCutsSelfLoop ==
    [][/\ (pc = "Basic" /\ cur \notin deleted) =>
            \A e \in CutableSelfLoops(wE) :
                e.from = cur =>
                    /\ \A i \in SeqToSet(grp[e.g]) : origE'[i].weight = 0
                    /\ ~HasEdge(wE', e.id)
                    /\ cur \in onWorkList'
       /\ (pc = "loop" /\ pc' = "rank" /\ fAcycSimp) => CutableSelfLoops(wE') = {}]_vars

\* the Basic rule has just cut a self-loop
C9_Witness ==
    /\ fired = "Basic"
    /\ pc = "Backward"
    /\ cur \in onWorkList
    /\ CutNow # {}

\* C10: a second run on the graph the first run left cuts no edge: in every
\* state of the second run the original edges are as the first run left
\* them.
C10_Idempotent ==
    run = 2 => origE = entryE

\* the second run, on a graph in which the first run cut an edge, has
\* returned
C10_Witness ==
    /\ run = 2
    /\ pc = "done"
    /\ entryE # inputE

\* the positions of simplify's loop at which a rule runs
RulePc == {"None", "One", "Out", "Dup", "Basic", "Backward"}

\* a step of simplify's loop in which a rule runs keeps the deleted set
\* growing, changes nothing on a deleted vertex, and changes the work queue
\* only with fewer work edges or more vertices marked deleted after it
RuleStepReduces ==
    pc \in RulePc =>
        /\ deleted \subseteq deleted'
        /\ cur \in deleted =>
              (wE' = wE /\ work' = work /\ deleted' = deleted /\ origE' = origE)
        /\ work' # work =>
              (Len(wE') < Len(wE) \/ deleted' # deleted)

\* C11: each call of simplify terminates: once entered, its loop comes to
\* an empty work queue; no step of simplify's loop takes a vertex out of the
\* deleted set, a rule run on a deleted vertex changes nothing, and every
\* rule step that changes the work queue leaves fewer work edges or more
\* vertices marked deleted (the Out rule's error path included).  Every
\* step of the program is a move to another position or to the next edge of
\* place's vector.
C11_SimplifyTerminates ==
    /\ (pc = "simplify") ~> (pc = "loop" /\ work = <<>>)
    /\ [][RuleStepReduces]_vars
    /\ [][<<Advance>>_<<pc, placeIdx>>]_vars

\* simplify's loop has come to an empty queue after the Out rule's error
\* path pushed a vertex
C11_Witness ==
    /\ pc = "loop"
    /\ work = <<>>
    /\ errors > 0
    /\ Cardinality(deleted) >= 2

\* original edge i entered the break graph: buildGraphIterate followed it
\* and found both its ends coloured
Entered(i) ==
    /\ OrigFollowEdge(entryE[i])
    /\ color[entryE[i].from] # 0
    /\ color[entryE[i].to] # 0

\* the work edges whose EdgeGroup holds original edge i
Holders(i) == {e \in SeqToSet(wE) : i \in SeqToSet(grp[e.g])}

\* C12 as the spec words it: once the break graph is built, every original
\* edge that entered it is either cut or in the EdgeGroup of exactly one
\* work edge.
C12_Partition ==
    pc # "main" =>
        \A i \in DOMAIN origE :
            Entered(i) =>
                (i \in CutNow) # (Cardinality(Holders(i)) = 1)

\* C12: when buildGraph has run every original edge that entered the break
\* graph is in the EdgeGroup of exactly one work edge; from then on, in
\* every state, an original edge is in the EdgeGroup of at most one work
\* edge, an original edge that is cut or that did not enter the break graph
\* is in none, and only original edges that entered it are cut.  (An edge
\* that entered may be uncut and in no EdgeGroup: its work edge was removed
\* uncut.)
C12_AtMostOneHolder ==
    pc # "main" =>
        \A i \in DOMAIN origE :
            /\ Cardinality(Holders(i)) <= 1
            /\ (pc = "simplify" /\ ~allowCut /\ Entered(i)) =>
                  Cardinality(Holders(i)) = 1
            /\ i \in CutNow => (Holders(i) = {} /\ Entered(i))
            /\ ~Entered(i) => Holders(i) = {}

\* the break graph was built from three original edges that entered the break
\* graph: one cut, one in the EdgeGroup of a work edge, one neither
C12_Witness ==
    /\ pc # "main"
    /\ \E i, j, k \in DOMAIN origE :
          /\ Entered(i) /\ Entered(j) /\ Entered(k)
          /\ i \in CutNow
          /\ j \notin CutNow /\ Cardinality(Holders(j)) = 1
          /\ k \notin CutNow /\ Holders(k) = {}

\* C13: when placeTryEdge detects a loop, after the step every vertex has
\* the rank it had before it, the tried edge is gone from the work graph,
\* every original edge of its EdgeGroup is cut, every other work edge is as
\* it was (its cutable flag too), and the work queue is empty.
C13_LoopRollsBack ==
    [][(pc = "try" /\ fired' = "PlaceLoop") =>
         /\ rank' = rank
         /\ ~HasEdge(wE', edges[placeIdx])
         /\ \A i \in SeqToSet(grp[EdgeById(wE, edges[placeIdx]).g]) : origE'[i].weight = 0
         /\ wE' = Unlink(wE, edges[placeIdx])
         /\ work' = <<>> /\ onWorkList' = {}]_vars

\* placeTryEdge has just cut an edge a->b after a search that went from b
\* to c, then from b to a, from a to c again and from a to b: c's rank was
\* raised twice and is again what it was
C13_Witness ==
    /\ fired = "PlaceLoop"
    /\ \E i \in CutNow, j1, j2, j3 \in DOMAIN wE :
          /\ j1 < j2
          /\ ~wE[j1].cutable /\ ~wE[j2].cutable /\ ~wE[j3].cutable
          /\ wE[j1].weight # 0 /\ wE[j2].weight # 0 /\ wE[j3].weight # 0
          /\ wE[j1].from = entryE[i].to /\ wE[j2].from = entryE[i].to
          /\ wE[j2].to = entryE[i].from
          /\ wE[j3].from = entryE[i].from /\ wE[j3].to = wE[j1].to
          /\ wE[j1].to # entryE[i].from /\ wE[j1].to # entryE[i].to
          /\ wE[j3].id < edges[placeIdx - 1]
          /\ rank[wE[j1].to] = storedRank[wE[j1].to]
          /\ rank[entryE[i].to] < rank[entryE[i].from]
          /\ rank[entryE[i].from] < rank[wE[j1].to]

\* the ranks are consistent on the uncutable work edges that have a weight
RanksConsistent ==
    \A e \in SeqToSet(wE) :
        (~e.cutable /\ e.weight # 0) => rank[e.to] > rank[e.from]

\* C14: from the ranking that precedes place (which makes the ranks
\* consistent on the uncutable edges), after every placeTryEdge, kept or
\* rolled back, and when acyclic returns, every uncutable work edge with a
\* weight has rank(to) > rank(from).
C14_RanksConsistent ==
    pc \in {"place", "try", "done"} => RanksConsistent

\* placeTryEdge has just kept an edge, and a vertex has a rank above the
\* one stored for it in an attempt: a kept attempt raised it
C14_Witness ==
    /\ fired = "PlaceKeep"
    /\ ~EdgeById(wE, edges[placeIdx - 1]).cutable
    /\ \E v \in SeqToSet(wV) : storedRank[v] > 0 /\ rank[v] > storedRank[v]

\* the uncutable work edges that have a weight, as pairs of vertices
UncutableWorkPairs(E) ==
    {<<E[j].from, E[j].to>> : j \in {k \in DOMAIN E : ~E[k].cutable /\ E[k].weight # 0}}

\* the uncutable work edges lead from e's destination back to e's source
PathBack(E, e) ==
    e.to = e.from \/ <<e.to, e.from>> \in TransClosure(UncutableWorkPairs(E))

\* C15: placeTryEdge on edge e finds a loop and cuts e if and only if the
\* uncutable work edges (those promoted by earlier attempts included) lead
\* from e's destination back to e's source when the attempt starts;
\* otherwise e stays in the work graph, uncutable, and no original edge is
\* cut.  No attempt cuts an original edge of another work edge, so an edge
\* that was kept is never cut.
C15_LoopIffPathBack ==
    [][(pc = "try" /\ placeIdx <= Len(edges)) =>
         LET e == EdgeById(wE, edges[placeIdx])
         IN  /\ e.cutable /\ e.weight # 0
             /\ (fired' = "PlaceLoop") <=> PathBack(wE, e)
             /\ PathBack(wE, e) =>
                   (~HasEdge(wE', e.id)
                    /\ \A i \in SeqToSet(grp[e.g]) : origE'[i].weight = 0)
             /\ ~PathBack(wE, e) =>
                   (/\ HasEdge(wE', e.id)
                    /\ EdgeById(wE', e.id) = [e EXCEPT !.cutable = FALSE]
                    /\ origE' = origE)
             /\ \A x \in SeqToSet(wE) :
                   x.id # e.id => \A i \in SeqToSet(grp[x.g]) : origE'[i] = origE[i]]_vars

\* placeTryEdge has just cut an edge while an edge it kept earlier is in the
\* work graph
C15_Witness ==
    /\ fired = "PlaceLoop"
    /\ \E k \in 1..(placeIdx - 2) :
          HasEdge(wE, edges[k]) /\ ~EdgeById(wE, edges[k]).cutable

\* work edge x is met before work edge y when the work vertices are
\* iterated and, for each, its out-edges
MetBefore(x, y) ==
    LET vpos(v) == CHOOSE k \in DOMAIN wV : wV[k] = v
        epos(e) == CHOOSE k \in DOMAIN wE : wE[k].id = e.id
    IN  \/ vpos(x.from) < vpos(y.from)
        \/ x.from = y.from /\ epos(x) < epos(y)

\* ed lists every cutable work edge that has a weight once, heavier edges
\* first, edges of one weight in the order they are met
PlaceOrdered(ed) ==
    /\ SeqToSet(ed) = {e.id : e \in {x \in SeqToSet(wE) : x.cutable /\ x.weight # 0}}
    /\ Cardinality(SeqToSet(ed)) = Len(ed)
    /\ \A j, k \in DOMAIN ed :
          j < k =>
              LET x == EdgeById(wE, ed[j])
                  y == EdgeById(wE, ed[k])
              IN  /\ x.weight >= y.weight
                  /\ x.weight = y.weight => MetBefore(x, y)

\* C16: the vector place makes lists every cutable work edge with a weight
\* exactly once, in non-increasing weight order, edges of equal weight in
\* the order in which the iteration over the work vertices and their
\* out-edges meets them; the attempts go through that vector once, front
\* to back, each on the edge at its position, and acyclic returns only
\* when all of it has been attempted.
C16_PlaceOrder ==
    /\ []((pc = "try" /\ placeIdx = 1) => PlaceOrdered(edges))
    /\ [][(pc = "try" /\ pc' = "try") =>
            /\ edges' = edges
            /\ placeIdx' = placeIdx + 1
            /\ \A x \in SeqToSet(wE) : x.id # edges[placeIdx] => x \in SeqToSet(wE')
            /\ fired' \in {"PlaceLoop", "PlaceKeep"}]_vars
    /\ [](pc = "done" => placeIdx = Len(edges) + 1)

\* place has made a vector of three edges or more, two of one weight and
\* one of another
C16_Witness ==
    /\ pc = "try"
    /\ placeIdx = 1
    /\ Len(edges) >= 3
    /\ \E j, k \in DOMAIN edges :
          /\ j < k
          /\ EdgeById(wE, edges[j]).weight = EdgeById(wE, edges[k]).weight
          /\ EdgeById(wE, edges[j]).from # EdgeById(wE, edges[k]).from
    /\ EdgeById(wE, edges[1]).weight > EdgeById(wE, edges[Len(edges)]).weight

\* the work queue of the state, as the queue operations take it
WorkQ == [list |-> work, on |-> onWorkList]

\* C17: in every state the vertices with m_onWorkList set are those linked
\* in the work queue, and none is linked twice; a push of a queued vertex
\* leaves the queue as it is, a push of another links it at the back and
\* sets its flag, a pop unlinks the front (the oldest) and clears its flag;
\* the queue is empty at every position outside simplify's loop: when
\* simplify has returned and when placeTryEdge has returned.
C17_WorkQueue ==
    /\ onWorkList = SeqToSet(work)
    /\ Cardinality(SeqToSet(work)) = Len(work)
    /\ \A v \in OV :
          IF v \in SeqToSet(work)
          THEN WorkPush(WorkQ, v) = WorkQ
          ELSE WorkPush(WorkQ, v) = [list |-> Append(work, v), on |-> onWorkList \cup {v}]
    /\ work # <<>> =>
          WorkPop(WorkQ) = [list |-> Tail(work), on |-> onWorkList \ {Head(work)}]
    /\ pc \notin (RulePc \cup {"loop"}) => work = <<>>

\* the Dup rule has just pushed onto a queue that held a vertex, in the
\* pass that cuts
C17_Witness ==
    /\ fired = "Dup"
    /\ allowCut
    /\ Len(work) >= 2
    /\ cur \in onWorkList

\* in this step every work edge that leaves the work graph has each of
\* its ends on the work queue afterwards, or marked deleted by the step
RemovedEndsPushed ==
    \A e \in SeqToSet(wE) :
        ~HasEdge(wE', e.id) =>
            /\ e.from \in onWorkList' \/ e.from \in deleted' \ deleted
            /\ e.to \in onWorkList' \/ e.to \in deleted' \ deleted

\* C18: whenever one of the six rules (None, One, Out, Dup, Basic, Backward)
\* removes a work edge, both ends of the edge are pushed onto the work
\* queue, except an end the same rule marks deleted.
C18_BothEndsPushed ==
    [][(pc \in RulePc) => (RemovedEndsPushed)]_vars

\* simplify has returned: between the two passes, or after the second
SimplifyReturned == (pc = "simplify" /\ allowCut) \/ pc = "rank"

\* none of simplifyNone, simplifyOne, simplifyOut, simplifyDup would act on v
QuietRewrite(v) ==
    LET ins == InEdges(wE, v)
        outs == OutEdges(wE, v)
    IN  /\ ins # <<>> /\ outs # <<>>
        /\ ~(Len(ins) = 1 /\ Len(outs) = 1 /\ ins[1].from # v /\ outs[1].to # v)
        /\ ~(Len(outs) = 1 /\ ~outs[1].cutable)
        /\ \A j, k \in DOMAIN outs : outs[j].to = outs[k].to => j = k

\* neither cutBasic nor cutBackward would act on v
QuietCut(v) ==
    \A e \in SeqToSet(OutEdges(wE, v)) :
        e.cutable => (e.to # v /\ e.to \notin BackwardMarked(wE, v))

\* C19: when simplify returns no work vertex has an empty in-edge or
\* out-edge list, none has exactly one in-edge and one out-edge that both
\* join it to other vertices, none has a single out-edge that is uncutable,
\* none has two out-edges to one destination, and after the allowCut pass
\* with the cut rules enabled none has a cutable self-loop or a cutable
\* out-edge to a vertex that has an uncutable edge back to it.
C19_Quiescent ==
    SimplifyReturned =>
        \A v \in SeqToSet(wV) :
            /\ QuietRewrite(v)
            /\ (pc = "rank" /\ fAcycSimp) => QuietCut(v)

\* C20: at every point between rule applications, from the end of
\* buildGraph to the end of place, every live work edge has a non-empty
\* EdgeGroup, no two live work edges refer to the same EdgeGroup, and no
\* original edge is a member of the EdgeGroups of two live work edges.
C20_GroupsDistinct ==
    pc # "main" =>
        /\ \A e \in SeqToSet(wE) : grp[e.g] # <<>>
        /\ \A j, k \in DOMAIN wE :
              j # k => /\ wE[j].g # wE[k].g
                       /\ SeqToSet(grp[wE[j].g]) \cap SeqToSet(grp[wE[k].g]) = {}

\* the One or Out rule has just made a work edge out of an edge whose
\* EdgeGroup holds two original edges, and another work edge is live
C20_Witness ==
    /\ fired \in {"One", "Out"}
    /\ Len(wE) >= 2
    /\ \E e \in SeqToSet(wE) : e.id # e.g /\ Len(grp[e.g]) >= 2

\* what simplifyDup leaves of v's out-edges to w
DupSurvivor(v, w) ==
    LET par   == Parallel(wE, v, w)
        after == Parallel(wE', v, w)
        hard  == {par[k].id : k \in {j \in DOMAIN par : ~par[j].cutable}}
    IN  /\ Len(after) <= 1
        /\ par # <<>> =>
              /\ Len(after) = 1
              /\ hard # {} => ~after[1].cutable /\ after[1].id \in hard
              /\ hard = {} => after[1].cutable /\ after[1].weight = SumWeight(par)

\* C21: after the Dup rule has run on a non-deleted vertex v, v has at most
\* one out-edge to each destination; the survivor is uncutable if any of
\* the parallel edges was uncutable, every cutable parallel edge being
\* removed with no original edge cut, and otherwise is a cutable edge whose
\* weight is the sum of the parallel edges' weights.
C21_DupSurvivor ==
    [][(pc = "Dup" /\ cur \notin deleted) =>
           (origE' = origE /\ \A w \in OV : DupSurvivor(cur, w))]_vars

\* the Dup rule has just run on a vertex that had a cutable and an uncutable
\* edge to one destination: one uncutable edge is left and nothing is cut
C21_Witness ==
    /\ fired = "Dup"
    /\ origE = entryE
    /\ \E i, j \in DOMAIN entryE :
          /\ Entered(i) /\ Entered(j)
          /\ entryE[i].from = cur /\ entryE[j].from = cur
          /\ entryE[i].to = entryE[j].to
          /\ entryE[i].cutable /\ ~entryE[j].cutable
          /\ Len(Parallel(wE, cur, entryE[i].to)) = 1
          /\ ~Parallel(wE, cur, entryE[i].to)[1].cutable

WorkPairs(E) == {<<e.from, e.to>> : e \in SeqToSet(E)}

\* C22: with the cut rules Basic and Backward disabled, on every input
\* without a cycle of uncutable followed edges, simplify cuts nothing,
\* acyclic does not end in the fatal error, and when it returns the uncut
\* followed original edges hold no directed cycle: place has cut every
\* cutable self-loop and back edge simplification left, so the work graph
\* holds no cutable edge and no cycle.
C22_NoCutRules ==
    (~fAcycSimp /\ NoUncutableCycle(entryE)) =>
        /\ pc # "fatal"
        /\ pc \in RulePc \cup {"simplify", "loop", "rank", "place"} => CutNow = {}
        /\ pc = "done" =>
              /\ ~PairsCyclic(FollowedPairs(origE))
              /\ \A e \in SeqToSet(wE) : ~e.cutable
              /\ ~PairsCyclic(WorkPairs(wE))

\* a run with the cut rules disabled has returned, and place has cut a
\* cutable self-loop of the input and a cutable edge between two vertices
C22_Witness ==
    /\ pc = "done"
    /\ ~fAcycSimp
    /\ NoUncutableCycle(entryE)
    /\ \E i, j \in CutNow :
          /\ entryE[i].from = entryE[i].to
          /\ entryE[j].from # entryE[j].to

\* original edge i lies on a directed cycle of the input's followed edges
OnFollowedCycle(i) ==
    /\ OrigFollowEdge(entryE[i])
    /\ <<entryE[i].to, entryE[i].from>> \in TransClosure(FollowedPairs(entryE))
          \/ entryE[i].to = entryE[i].from

\* C23: every original edge that acyclic cuts is followed by the predicate,
\* has weight # 0 and joins two vertices of the same nonzero SCC colour, so
\* it lay on a directed cycle of the input's followed edges; an edge that
\* joins two different SCCs is never cut, in the work graph or not.
C23_CutInsideScc ==
    /\ \A i \in CutNow :
          /\ OrigFollowEdge(entryE[i])
          /\ color[entryE[i].from] # 0
          /\ color[entryE[i].from] = color[entryE[i].to]
    /\ pc = "done" => \A i \in CutNow : OnFollowedCycle(i)

\* acyclic has returned with a cut edge, and an edge that buildGraph put in
\* the work graph between vertices of two different colours is not cut
C23_Witness ==
    /\ pc = "done"
    /\ CutNow # {}
    /\ \E i \in DOMAIN entryE :
          /\ Entered(i)
          /\ color[entryE[i].from] # color[entryE[i].to]
          /\ entryE[i].cutable
          /\ i \notin CutNow

====
